---- MODULE Spec2Model ----
(***************************************************************************)
(* The postcode clusterer of 0_Create_Clusters.py and the database helper  *)
(* execute_query of utils.py.                                              *)
(*                                                                         *)
(* The postcodes table is a function from row id to a row record.  A       *)
(* nullable SQL column holds Null (the empty tuple) or Some(v) (a          *)
(* one-element tuple), so that NULL is never confused with a value.        *)
(*                                                                         *)
(* Coordinates are in hundredths of a degree.  Haversine tabulates the     *)
(* expression of the source (R = 6371 km) on the coordinate grid of the    *)
(* model, in metres rounded up, which leaves every comparison with a       *)
(* radius of whole kilometres exact.                                       *)
(*                                                                         *)
(* The specifications:                                                     *)
(*   Spec      generate_clusters as it runs through execute_query with the *)
(*             psycopg2 cursor: fetchall() raises ProgrammingError after   *)
(*             a statement that produced no result set, and by then the    *)
(*             statement is committed.                                     *)
(*   StmtSpec  the three SQL statements of generate_clusters executed by   *)
(*             the database in program order, one committed statement per  *)
(*             step.  "A completed run" of the clusterer is a run of       *)
(*             these three statements.                                     *)
(*   RerunSpec StmtSpec without coordinate edits, remembering in prev the  *)
(*             outcome of the previous completed run.                      *)
(*   RetrySpec the three statements in program order, where cur.execute of *)
(*             any of them may raise, and calls may follow a failed call.  *)
(*   FailSpec  RetrySpec, remembering in prev the table as it was when the *)
(*             current call was entered.                                   *)
(***************************************************************************)
EXTENDS Integers, Naturals, Sequences, FiniteSets, TLC

\* ------------------------------------------------------------------ bounds
MaxId == 3
MaxEdits == 1
MaxClusters == 3
MaxDay == 9

\* INTERVAL '7 days' of get_next_cluster.
StaleDays == 7

\* maxconn of db_pool.
MaxConn == 10

\* stop_after_attempt(3) of get_website_content.
MaxAttempts == 3

\* The tasks table holds at most MaxTasks rows.
MaxTasks == 3

ListingIds == {1, 2}

Ids == 1..MaxId

\* Latitudes and longitudes of the model's grid, in 0.01 degree.
Lats == {0, 3}
Lons == {0, 4}

\* Values of the radius_km argument (5 is the default of the source).
Radii == {0, 5}

\* ------------------------------------------------------------ SQL values
Null == <<>>
Some(v) == <<v>>
Val(x) == x[1]

VARIABLES
    postcodes,      \* the postcodes table: [Ids -> row]
    pc,             \* position of the current generate_clusters call
    radius_km,      \* argument of the current call
    clusters_added, \* rows returned by the center-marking statement
    result,         \* value returned by the last call: Null or Some(count)
    reset_rows,     \* ids of the rows statement 1 of the current call updated
    prev,           \* history: Null or Some([db, radius]), the table and the
                    \* radius at the end of the previous completed call
    edits,          \* coordinate edits made so far
    failed,         \* "none", or the statement of the current call whose
                    \* cur.execute raised
    \* 1_Places_scraper.py
    last_scraped,   \* postcode_clusters.last_scraped: [ClusterIds -> Null or
                    \* Some(day)]
    now,            \* NOW(), in days
    cluster,        \* main's local: what get_next_cluster returned
    scraper_pc,     \* position of main of the places scraper
    \* two generate_clusters calls at once
    runs,           \* [Runs -> [pc, radius_km, clusters_added]]
    \* utils.py: the tasks table, execute_query and db_pool
    tasks,          \* table tasks: task_id -> [status, listing]
    query,          \* the last execute_query call: [stmt, path, raised]
    pool,           \* connections of db_pool that are checked out
    \* 2_Website_info.py
    stored,         \* listing_id -> post_content and
                    \* what_makes_us_different are stored
    batch,          \* listings of the current SELECT not yet handled
    website_pc,     \* "start", "loop", "finished", "raised"
    fetch,          \* the last get_website_content call of a main page
    \* 4_Listing_Creator.py
    wp_post_id,     \* listing_id -> wp_post_id, 0 for NULL
    todo,           \* listings of the SELECT not yet handled
    listing_pc,     \* "start", "loop", "finished", "raised"
    \* 1_Places_scraper.py, save_place_to_db
    places,         \* table listings: listing_id -> [google_place_id,
                    \* postcode_id, name]
    saved           \* the last save_place_to_db call

clusterVars == <<postcodes, pc, radius_km, clusters_added, result, reset_rows,
                 prev, edits, failed>>

scraperVars == <<last_scraped, now, cluster, scraper_pc>>

\* The variables a single generate_clusters call has no part in.
taskVars == <<tasks, query, pool>>
websiteVars == <<stored, batch, website_pc, fetch>>
listingVars == <<wp_post_id, todo, listing_pc>>
placeVars == <<places, saved>>
otherVars == <<scraperVars, runs, taskVars, websiteVars, listingVars,
               placeVars>>

\* The variables the places scraper has no part in.
exceptScraper == <<clusterVars, runs, taskVars, websiteVars, listingVars,
                   placeVars>>

\* The variables concurrent generate_clusters calls leave alone: all but
\* postcodes and runs.
exceptRuns == <<pc, radius_km, clusters_added, result, reset_rows, prev,
                edits, failed, scraperVars, taskVars, websiteVars,
                listingVars, placeVars>>

\* The variables the task functions of utils.py leave alone.
exceptTasks == <<clusterVars, scraperVars, runs, websiteVars, listingVars,
                 placeVars>>

\* The variables main of 2_Website_info.py leaves alone.
exceptWebsite == <<clusterVars, scraperVars, runs, listingVars, placeVars>>

\* The variables process_listings leaves alone.
exceptListing == <<clusterVars, scraperVars, runs, websiteVars, placeVars>>

\* The variables save_place_to_db leaves alone.
exceptPlaces == <<clusterVars, scraperVars, runs, tasks, websiteVars,
                  listingVars>>

vars == <<clusterVars, otherVars>>

\* A row as ensure_columns_exist leaves it: the cluster columns at their
\* defaults, the coordinates whatever the geocoder stored.
NewRow(lat, lon) ==
    [latitude |-> lat, longitude |-> lon,
     is_cluster_center |-> FALSE, cluster_id |-> Null,
     cluster_postcodes |-> Null,
     scrape_status |-> "pending", error_message |-> Null]

\* ---------------------------------------------------------------- helpers
RECURSIVE SortAsc(_)
SortAsc(S) ==
    IF S = {} THEN <<>>
    ELSE LET m == CHOOSE x \in S : \A y \in S : x <= y
         IN  <<m>> \o SortAsc(S \ {m})

Elems(seq) == {seq[i] : i \in DOMAIN seq}

Abs(x) == IF x < 0 THEN -x ELSE x

\* 2 * 6371 * asin(sqrt(sin(radians(dlat)/2)^2 +
\*     cos(radians(lat_a)) * cos(radians(lat_b)) * sin(radians(dlon)/2)^2)),
\* in metres rounded up, for coordinates of Lats x Lons.  The cos factor
\* changes the result by less than a millimetre between the two latitudes.
Haversine(lat_a, lon_a, lat_b, lon_b) ==
    LET dlat == Abs(lat_b - lat_a)
        dlon == Abs(lon_b - lon_a)
    IN  CASE dlat = 0 /\ dlon = 0 -> 0
          [] dlat = 3 /\ dlon = 0 -> 3336
          [] dlat = 0 /\ dlon = 4 -> 4448
          [] dlat = 3 /\ dlon = 4 -> 5560

\* Mutant: the join condition written with < in place of <=.
WithinRadius_strict(db, a, b, r) ==
    /\ db[a].latitude # Null /\ db[a].longitude # Null
    /\ db[b].latitude # Null /\ db[b].longitude # Null
    /\ Haversine(Val(db[a].latitude), Val(db[a].longitude),
                 Val(db[b].latitude), Val(db[b].longitude)) < r * 1000

\* The join condition  haversine(a, b) <= %s  with radius_km bound to r.
\* A comparison with a NULL operand is not true in SQL.
WithinRadius(db, a, b, r) ==
    /\ db[a].latitude # Null /\ db[a].longitude # Null
    /\ db[b].latitude # Null /\ db[b].longitude # Null
    /\ Haversine(Val(db[a].latitude), Val(db[a].longitude),
                 Val(db[b].latitude), Val(db[b].longitude)) <= r * 1000

\* Mutant: the filter on longitude forgotten.
numbered_locations_latOnly(db) ==
    {i \in Ids : db[i].latitude # Null}

\* CTE numbered_locations: the rows with both coordinates.
numbered_locations(db) ==
    {i \in Ids : db[i].latitude # Null /\ db[i].longitude # Null}

\* Mutant: ARRAY_AGG(DISTINCT b.id ORDER BY b.id DESC).
covered_postcodes_desc(db, a, r) ==
    LET s == SortAsc({b \in numbered_locations(db) : WithinRadius(db, a, b, r)})
    IN  [k \in 1..Len(s) |-> s[Len(s) + 1 - k]]

\* ARRAY_AGG(DISTINCT b.id ORDER BY b.id) over the rows b joined to a.
\* (For radius_km >= 0 every a joins itself, so the array is never the
\* {NULL} that the LEFT JOIN gives an unmatched a.)
covered_postcodes(db, a, r) ==
    SortAsc({b \in numbered_locations(db) : WithinRadius(db, a, b, r)})

\* CTE potential_clusters: one row per numbered location.
potential_clusters(db, r) ==
    [a \in numbered_locations(db) |->
        [center_id |-> a,
         covered_postcodes |-> covered_postcodes(db, a, r),
         coverage_count |-> Len(covered_postcodes(db, a, r))]]

\* ROW_NUMBER() OVER () is computed before DISTINCT ON and ORDER BY, over
\* all rows of potential_clusters, in the order the aggregation happens to
\* emit them: any numbering 1..n of the candidates.
RowNumberings(cands) ==
    {f \in [cands -> 1..Cardinality(cands)] :
        \A x, y \in cands : x # y => f[x] # f[y]}

\* Mutant: DISTINCT ON (coverage_count) in place of (covered_postcodes).
DistinctOnChoices_byCount(pcl) ==
    LET counts == {pcl[a].coverage_count : a \in DOMAIN pcl}
    IN  {f \in [counts -> DOMAIN pcl] :
            \A n \in counts : pcl[f[n]].coverage_count = n}

\* SELECT DISTINCT ON (covered_postcodes) ... ORDER BY covered_postcodes,
\* coverage_count DESC keeps the first row of each group of equal
\* covered_postcodes; rows the ORDER BY does not separate come in any order.
DistinctOnChoices(pcl) ==
    LET sigs == {pcl[a].covered_postcodes : a \in DOMAIN pcl}
    IN  {f \in [sigs -> DOMAIN pcl] :
            \A s \in sigs :
                /\ pcl[f[s]].covered_postcodes = s
                /\ \A a \in DOMAIN pcl :
                      pcl[a].covered_postcodes = s
                          => pcl[a].coverage_count <= pcl[f[s]].coverage_count}

\* Mutant: plain SELECT, no DISTINCT ON: every candidate is kept.
optimized_clusters_all(db, r) ==
    LET pcl == potential_clusters(db, r)
    IN  {[c \in DOMAIN pcl |->
             [center_id |-> c,
              covered_postcodes |-> pcl[c].covered_postcodes,
              coverage_count |-> pcl[c].coverage_count,
              cluster_id |-> num[c]]] :
          num \in RowNumberings(DOMAIN pcl)}

\* CTE optimized_clusters: the possible results, each a function from the
\* selected center ids to their rows.
optimized_clusters(db, r) ==
    LET pcl == potential_clusters(db, r)
    IN  {[c \in {pick[s] : s \in DOMAIN pick} |->
             [center_id |-> c,
              covered_postcodes |-> pcl[c].covered_postcodes,
              coverage_count |-> pcl[c].coverage_count,
              cluster_id |-> num[c]]] :
          num \in RowNumberings(DOMAIN pcl), pick \in DistinctOnChoices(pcl)}

\* ------------------------------------------------------- the statements
\* Mutant: WHERE is_cluster_center = TRUE alone; member rows keep their
\* cluster_id.
ResetStmt_centersOnly(db) ==
    [i \in Ids |->
        IF db[i].is_cluster_center = TRUE
        THEN [db[i] EXCEPT !.is_cluster_center = FALSE,
                           !.cluster_id = Null,
                           !.cluster_postcodes = Null,
                           !.scrape_status = "pending",
                           !.error_message = Null]
        ELSE db[i]]

\* Mutant: SET is_cluster_center = (cluster_id IS NOT NULL) in place of
\* FALSE; the right-hand side reads the row as it was.
ResetStmt_flagFromId(db) ==
    [i \in Ids |->
        IF db[i].is_cluster_center = TRUE \/ db[i].cluster_id # Null
        THEN [db[i] EXCEPT !.is_cluster_center = (db[i].cluster_id # Null),
                           !.cluster_id = Null,
                           !.cluster_postcodes = Null,
                           !.scrape_status = "pending",
                           !.error_message = Null]
        ELSE db[i]]

\* Mutant: cluster_postcodes = NULL missing from the SET list.
ResetStmt_keepArray(db) ==
    [i \in Ids |->
        IF db[i].is_cluster_center = TRUE \/ db[i].cluster_id # Null
        THEN [db[i] EXCEPT !.is_cluster_center = FALSE,
                           !.cluster_id = Null,
                           !.scrape_status = "pending",
                           !.error_message = Null]
        ELSE db[i]]

\* Statement 1: UPDATE postcodes SET ... WHERE is_cluster_center = TRUE
\*              OR cluster_id IS NOT NULL.
ResetStmt(db) ==
    [i \in Ids |->
        IF db[i].is_cluster_center = TRUE \/ db[i].cluster_id # Null
        THEN [db[i] EXCEPT !.is_cluster_center = FALSE,
                           !.cluster_id = Null,
                           !.cluster_postcodes = Null,
                           !.scrape_status = "pending",
                           !.error_message = Null]
        ELSE db[i]]

\* Mutant: the statement returns one id per candidate of
\* potential_clusters, not one per updated row.
MarkCentersStmt_returnsCandidates(db, r) ==
    {[db |-> [i \in Ids |->
                 IF i \in DOMAIN oc
                 THEN [db[i] EXCEPT !.is_cluster_center = TRUE,
                                    !.cluster_id = Some(oc[i].cluster_id),
                                    !.cluster_postcodes =
                                        Some(oc[i].covered_postcodes),
                                    !.scrape_status = "pending"]
                 ELSE db[i]],
      rows |-> numbered_locations(db)] : oc \in optimized_clusters(db, r)}

\* Statement 2: WITH ... UPDATE postcodes p SET ... FROM optimized_clusters
\* oc WHERE p.id = oc.center_id RETURNING p.id.  The possible outcomes:
\* the table afterwards and the ids returned.
MarkCentersStmt(db, r) ==
    {[db |-> [i \in Ids |->
                 IF i \in DOMAIN oc
                 THEN [db[i] EXCEPT !.is_cluster_center = TRUE,
                                    !.cluster_id = Some(oc[i].cluster_id),
                                    !.cluster_postcodes =
                                        Some(oc[i].covered_postcodes),
                                    !.scrape_status = "pending"]
                 ELSE db[i]],
      rows |-> DOMAIN oc] : oc \in optimized_clusters(db, r)}

\* Mutant: p.id = c.cluster_postcodes[1] in place of p.id = ANY(...).
JoinedCenters_firstElement(db, p) ==
    {c \in Ids : /\ db[c].is_cluster_center = TRUE
                 /\ db[c].cluster_postcodes # Null
                 /\ Val(db[c].cluster_postcodes) # <<>>
                 /\ p = Val(db[c].cluster_postcodes)[1]
                 /\ p # c}

\* The rows c that statement 3 joins to p: c.is_cluster_center = TRUE AND
\* p.id = ANY(c.cluster_postcodes) AND p.id != c.id.
JoinedCenters(db, p) ==
    {c \in Ids : /\ db[c].is_cluster_center = TRUE
                 /\ db[c].cluster_postcodes # Null
                 /\ p \in Elems(Val(db[c].cluster_postcodes))
                 /\ p # c}

\* Mutant: SET cluster_id = c.cluster_id, cluster_postcodes =
\* c.cluster_postcodes: the member rows receive the array of their center.
AssignMembersStmt_copyArray(db) ==
    LET targets == {p \in Ids : JoinedCenters(db, p) # {}}
    IN  {[p \in Ids |->
             IF p \in targets
             THEN [db[p] EXCEPT !.cluster_id = db[from[p]].cluster_id,
                                !.cluster_postcodes =
                                    db[from[p]].cluster_postcodes]
             ELSE db[p]] :
          from \in {f \in [targets -> Ids] :
                       \A p \in targets : f[p] \in JoinedCenters(db, p)}}

\* Statement 3: UPDATE postcodes p SET cluster_id = c.cluster_id FROM
\* postcodes c WHERE ...  Every p with a joined row is updated once, from
\* one of its joined rows (which one is not specified), and every
\* c.cluster_id is read from the table as it was before the statement.
AssignMembersStmt(db) ==
    LET targets == {p \in Ids : JoinedCenters(db, p) # {}}
    IN  {[p \in Ids |->
             IF p \in targets
             THEN [db[p] EXCEPT !.cluster_id = db[from[p]].cluster_id]
             ELSE db[p]] :
          from \in {f \in [targets -> Ids] :
                       \A p \in targets : f[p] \in JoinedCenters(db, p)}}

\* The rows statement 1 updates (its WHERE clause).
ResetMatches(db) ==
    {i \in Ids : db[i].is_cluster_center = TRUE \/ db[i].cluster_id # Null}

\* ------------------------------------------------------- execute_query
Statements == {"reset", "mark_centers", "assign_members"}

\* A SELECT and a statement with a RETURNING clause (statement 2 of
\* generate_clusters, the INSERTs of insert_task and save_place_to_db) have
\* a result set; an UPDATE without one gives the cursor none.
HasResultSet(stmt) ==
    stmt \in {"mark_centers", "insert_task", "select_listings",
              "upsert_listing"}

\* What the database may do with a statement: the table afterwards and the
\* rows of the result set.
StmtOutcomes(stmt, db, r) ==
    CASE stmt = "reset" -> {[db |-> ResetStmt(db), rows |-> {}]}
      [] stmt = "mark_centers" -> MarkCentersStmt(db, r)
      [] stmt = "assign_members" ->
            {[db |-> d, rows |-> {}] : d \in AssignMembersStmt(db)}

\* execute_query: cur.execute(query, params); conn.commit(); return
\* cur.fetchall().  The commit comes before fetchall, and fetchall raises
\* ProgrammingError("no results to fetch") when the statement produced no
\* result set; the rollback of the except clause then finds nothing to undo.
execute_query(stmt, db, r) ==
    {[db |-> o.db, rows |-> o.rows, raised |-> ~HasResultSet(stmt)] :
        o \in StmtOutcomes(stmt, db, r)}

\* Mutant: the except clause logs and returns an empty list instead of
\* raising.
execute_query_error_swallowed(db) ==
    [db |-> db, rows |-> {}, raised |-> FALSE]

\* execute_query when cur.execute raises (the database rejects or loses the
\* statement): except Exception: conn.rollback(); logger.error(...); raise.
\* Nothing of the statement is committed.
execute_query_error(db) ==
    [db |-> db, rows |-> {}, raised |-> TRUE]

\* A row starts without coordinates or with both.
InitialCoordinates ==
    {<<Null, Null>>} \cup {<<Some(la), Some(lo)>> : la \in Lats, lo \in Lons}

\* ------------------------------------------- 1_Places_scraper.py
ClusterIds == 1..MaxClusters

\* The first day of the model: late enough for a timestamp to be stale.
FirstDay == StaleDays + 1

\* ORDER BY last_scraped NULLS FIRST: a comes no later than b.
NullsFirst(a, b) ==
    a = Null \/ (b # Null /\ Val(a) <= Val(b))

\* Mutant: ORDER BY last_scraped NULLS LAST.
get_next_cluster_nullsLast(ls, t) ==
    LET eligible == {c \in ClusterIds :
                        ls[c] = Null \/ Val(ls[c]) < t - StaleDays}
        first == {c \in eligible :
                     \A d \in eligible :
                         ls[d] = Null \/ (ls[c] # Null
                                            /\ Val(ls[c]) <= Val(ls[d]))}
    IN  IF eligible = {} THEN {<<>>} ELSE {<<c>> : c \in first}

\* get_next_cluster: SELECT ... FROM postcode_clusters WHERE last_scraped IS
\* NULL OR last_scraped < NOW() - INTERVAL '7 days' ORDER BY last_scraped
\* NULLS FIRST LIMIT 1, through execute_query (fetchall): the possible
\* results, each a list of at most one row; rows the ORDER BY does not
\* separate come in any order.
get_next_cluster(ls, t) ==
    LET eligible == {c \in ClusterIds :
                        ls[c] = Null \/ Val(ls[c]) < t - StaleDays}
        first == {c \in eligible :
                     \A d \in eligible : NullsFirst(ls[c], ls[d])}
    IN  IF eligible = {} THEN {<<>>} ELSE {<<c>> : c \in first}

\* ------------------------------------------------------------------ Init
\* No places scraper running, no cluster scraped yet.
ScraperIdle ==
    /\ last_scraped = [c \in ClusterIds |-> Null]
    /\ now = FirstDay
    /\ cluster = <<>>
    /\ scraper_pc = "start"

\* The processes that can call generate_clusters at the same time.
Runs == {1, 2}

\* No concurrent call entered yet.
RunsIdle ==
    runs = [k \in Runs |-> [pc |-> "idle", radius_km |-> 5,
                            clusters_added |-> {}]]

\* No task, no execute_query call made yet, every connection in the pool.
TasksIdle ==
    /\ tasks = <<>>
    /\ query = [stmt |-> "none", path |-> "none", raised |-> FALSE]
    /\ pool = 0

\* 2_Website_info.py not started, no listing waiting for content.
WebsiteIdle ==
    /\ stored = [l \in ListingIds |-> TRUE]
    /\ batch = {}
    /\ website_pc = "start"
    /\ fetch = [outcomes |-> <<>>, attempts |-> 0, content |-> FALSE]

\* 4_Listing_Creator.py not started, every listing published.
ListingIdle ==
    /\ wp_post_id = [l \in ListingIds |-> 1]
    /\ todo = {}
    /\ listing_pc = "start"

\* No place saved.
PlacesIdle ==
    /\ places = <<>>
    /\ saved = [place |-> 0, postcode_id |-> 0, name |-> 0,
                returned |-> FALSE]

OthersIdle ==
    /\ ScraperIdle
    /\ RunsIdle
    /\ TasksIdle
    /\ WebsiteIdle
    /\ ListingIdle
    /\ PlacesIdle

Init ==
    /\ OthersIdle
    /\ postcodes \in {[i \in Ids |-> NewRow(at[i][1], at[i][2])] :
                         at \in [Ids -> InitialCoordinates]}
    /\ pc = "idle"
    /\ radius_km = 5
    /\ clusters_added = {}
    /\ result = Null
    /\ reset_rows = {}
    /\ prev = Null
    /\ edits = 0
    /\ failed = "none"

\* --------------------------------------------------- actions of Spec
\* Mutant: the failed call reports the count 0 to its caller.
Raised_reportsZero(db, r, cleared) ==
    /\ postcodes' = db
    /\ pc' = "raised"
    /\ radius_km' = r
    /\ result' = Some(0)
    /\ reset_rows' = cleared

\* except Exception: logger.error(...); raise
Raised(db, r, cleared) ==
    /\ postcodes' = db
    /\ pc' = "raised"
    /\ radius_km' = r
    /\ result' = Null
    /\ reset_rows' = cleared

\* return len(clusters_added)
Returned(db, r, cleared, rows) ==
    /\ postcodes' = db
    /\ pc' = "done"
    /\ radius_km' = r
    /\ result' = Some(Cardinality(rows))
    /\ reset_rows' = cleared

\* One call generate_clusters(r), from entry to return or raise.
GenerateClusters(r) ==
    /\ pc \in {"idle", "done", "raised"}
    /\ \E q1 \in execute_query("reset", postcodes, r) :
          LET cleared == ResetMatches(postcodes)
          IN  IF q1.raised
              THEN Raised(q1.db, r, cleared) /\ clusters_added' = {}
              ELSE \E q2 \in execute_query("mark_centers", q1.db, r) :
                      IF q2.raised
                      THEN Raised(q2.db, r, cleared) /\ clusters_added' = {}
                      ELSE \E q3 \in execute_query("assign_members", q2.db, r) :
                              /\ clusters_added' = q2.rows
                              /\ IF q3.raised
                                 THEN Raised(q3.db, r, cleared)
                                 ELSE Returned(q3.db, r, cleared, q2.rows)
    /\ UNCHANGED <<prev, edits, failed, otherVars>>

\* Between calls a coordinate column of one row becomes NULL.
Geocode(i, col) ==
    /\ pc \in {"done", "raised"}
    /\ edits < MaxEdits
    /\ \/ col = "latitude" /\ postcodes[i].latitude # Null
          /\ postcodes' = [postcodes EXCEPT ![i].latitude = Null]
       \/ col = "longitude" /\ postcodes[i].longitude # Null
          /\ postcodes' = [postcodes EXCEPT ![i].longitude = Null]
    /\ pc' = "idle"
    /\ edits' = edits + 1
    /\ UNCHANGED <<radius_km, clusters_added, result, reset_rows, prev,
                   failed, otherVars>>

Next ==
    \/ \E r \in Radii : GenerateClusters(r)
    \/ \E i \in Ids, col \in {"latitude", "longitude"} : Geocode(i, col)

Spec == Init /\ [][Next]_vars

\* ----------------------------------------------- actions of StmtSpec
\* generate_clusters(r) is entered and statement 1 is executed.
ResetStep(r) ==
    /\ pc \in {"idle", "done", "raised"}
    /\ postcodes' = ResetStmt(postcodes)
    /\ reset_rows' = ResetMatches(postcodes)
    /\ pc' = "reset"
    /\ radius_km' = r
    /\ clusters_added' = {}
    /\ result' = Null
    /\ failed' = "none"
    /\ UNCHANGED <<edits, otherVars>>

Reset(r) == ResetStep(r) /\ UNCHANGED prev

\* Statement 2 is executed; clusters_added is its RETURNING list.
MarkCenters ==
    /\ pc = "reset"
    /\ \E out \in MarkCentersStmt(postcodes, radius_km) :
          /\ postcodes' = out.db
          /\ clusters_added' = out.rows
    /\ pc' = "marked"
    /\ UNCHANGED <<radius_km, result, reset_rows, prev, edits, failed,
                   otherVars>>

\* Statement 3 is executed and generate_clusters returns
\* len(clusters_added).
AssignMembers ==
    /\ pc = "marked"
    /\ postcodes' \in AssignMembersStmt(postcodes)
    /\ pc' = "done"
    /\ result' = Some(Cardinality(clusters_added))
    /\ UNCHANGED <<radius_km, clusters_added, reset_rows, prev, edits,
                   failed, otherVars>>

StmtNext ==
    \/ \E r \in Radii : Reset(r)
    \/ MarkCenters
    \/ AssignMembers
    \/ \E i \in Ids, col \in {"latitude", "longitude"} : Geocode(i, col)

StmtSpec == Init /\ [][StmtNext]_vars

\* ---------------------------------------------- actions of RerunSpec
\* As Reset, remembering how the previous completed call left the table.
ResetAgain(r) ==
    /\ ResetStep(r)
    /\ prev' = IF pc = "done"
               THEN Some([db |-> postcodes, radius |-> radius_km])
               ELSE prev

RerunNext ==
    \/ \E r \in Radii : ResetAgain(r)
    \/ MarkCenters
    \/ AssignMembers

RerunSpec == Init /\ [][RerunNext]_vars

\* ---------------------------- actions of FailSpec and RetrySpec
\* generate_clusters(r) is entered and cur.execute of statement 1 raises.
\* p is what the history variable prev becomes.
ResetFailsStep(r, p) ==
    /\ pc \in {"idle", "done", "raised"}
    /\ LET q == execute_query_error(postcodes)
       IN  /\ postcodes' = q.db
           /\ pc' = IF q.raised THEN "raised" ELSE "reset"
    /\ failed' = "reset"
    /\ radius_km' = r
    /\ reset_rows' = {}
    /\ clusters_added' = {}
    /\ result' = Null
    /\ prev' = p
    /\ UNCHANGED <<edits, otherVars>>

\* cur.execute of statement 2 raises.
MarkCentersFails ==
    /\ pc = "reset"
    /\ LET q == execute_query_error(postcodes)
       IN  /\ postcodes' = q.db
           /\ clusters_added' = q.rows
           /\ pc' = IF q.raised THEN "raised" ELSE "marked"
    /\ failed' = "mark_centers"
    /\ UNCHANGED <<radius_km, result, reset_rows, prev, edits, otherVars>>

\* cur.execute of statement 3 raises; without the exception
\* generate_clusters would go on to return len(clusters_added).
AssignMembersFails ==
    /\ pc = "marked"
    /\ LET q == execute_query_error(postcodes)
       IN  /\ postcodes' = q.db
           /\ pc' = IF q.raised THEN "raised" ELSE "done"
           /\ result' = IF q.raised THEN Null
                         ELSE Some(Cardinality(clusters_added))
    /\ failed' = "assign_members"
    /\ UNCHANGED <<radius_km, clusters_added, reset_rows, prev, edits,
                   otherVars>>

ResetFails(r) == ResetFailsStep(r, prev)

\* RetrySpec: the statements in program order, any of them failing.
RetryNext ==
    \/ \E r \in Radii : Reset(r)
    \/ MarkCenters
    \/ AssignMembers
    \/ \E r \in Radii : ResetFails(r)
    \/ MarkCentersFails
    \/ AssignMembersFails

RetrySpec == Init /\ [][RetryNext]_vars

\* FailSpec: as RetrySpec, remembering in prev the table and the radius
\* found when the current call was entered.
ResetFrom(r) ==
    /\ ResetStep(r)
    /\ prev' = Some([db |-> postcodes, radius |-> radius_km])

ResetFailsFrom(r) ==
    ResetFailsStep(r, Some([db |-> postcodes, radius |-> radius_km]))

FailNext ==
    \/ \E r \in Radii : ResetFrom(r)
    \/ MarkCenters
    \/ AssignMembers
    \/ \E r \in Radii : ResetFailsFrom(r)
    \/ MarkCentersFails
    \/ AssignMembersFails

FailSpec == Init /\ [][FailNext]_vars

\* ------------------------------------------ actions of ScraperSpec
\* No generate_clusters call under way, the postcodes table without
\* coordinates.
ClustererIdle ==
    /\ postcodes = [i \in Ids |-> NewRow(Null, Null)]
    /\ pc = "idle"
    /\ radius_km = 5
    /\ clusters_added = {}
    /\ result = Null
    /\ reset_rows = {}
    /\ prev = Null
    /\ edits = 0
    /\ failed = "none"

\* postcode_clusters holds any timestamps up to the first day.
ScraperInit ==
    /\ ClustererIdle
    /\ RunsIdle
    /\ TasksIdle
    /\ WebsiteIdle
    /\ ListingIdle
    /\ PlacesIdle
    /\ last_scraped \in [ClusterIds ->
                            {Null} \cup {Some(d) : d \in 0..FirstDay}]
    /\ now = FirstDay
    /\ cluster = <<>>
    /\ scraper_pc = "start"

\* main of the places scraper, from start to its end: get_next_cluster
\* returns a list; an empty one ends the loop ("No more areas to process"),
\* on any other one cluster['center_postcode_id'] indexes a list with a
\* string and raises TypeError, which main logs and re-raises.
ScraperMain ==
    /\ scraper_pc = "start"
    /\ \E rows \in get_next_cluster(last_scraped, now) :
          /\ cluster' = rows
          /\ scraper_pc' = IF rows = <<>> THEN "finished" ELSE "raised"
    /\ UNCHANGED <<last_scraped, now, exceptScraper>>

\* A day passes, and the script is started again.
NextDay ==
    /\ scraper_pc \in {"finished", "raised"}
    /\ now < MaxDay
    /\ now' = now + 1
    /\ scraper_pc' = "start"
    /\ UNCHANGED <<last_scraped, cluster, exceptScraper>>

ScraperNext ==
    \/ ScraperMain
    \/ NextDay

ScraperSpec == ScraperInit /\ [][ScraperNext]_vars

\* --------------------------------------------- actions of ConcSpec
\* Two processes call generate_clusters once each.  Every statement goes
\* through its own execute_query and is committed by itself, so the calls
\* interleave statement by statement on the one postcodes table.
ConcReset(k, r) ==
    /\ runs[k].pc = "idle"
    /\ postcodes' = ResetStmt(postcodes)
    /\ runs' = [runs EXCEPT ![k] = [pc |-> "reset", radius_km |-> r,
                                     clusters_added |-> {}]]
    /\ UNCHANGED exceptRuns

ConcMarkCenters(k) ==
    /\ runs[k].pc = "reset"
    /\ \E out \in MarkCentersStmt(postcodes, runs[k].radius_km) :
          /\ postcodes' = out.db
          /\ runs' = [runs EXCEPT ![k].pc = "marked",
                                  ![k].clusters_added = out.rows]
    /\ UNCHANGED exceptRuns

ConcAssignMembers(k) ==
    /\ runs[k].pc = "marked"
    /\ postcodes' \in AssignMembersStmt(postcodes)
    /\ runs' = [runs EXCEPT ![k].pc = "done"]
    /\ UNCHANGED exceptRuns

ConcNext ==
    \/ \E k \in Runs, r \in Radii : ConcReset(k, r)
    \/ \E k \in Runs : ConcMarkCenters(k)
    \/ \E k \in Runs : ConcAssignMembers(k)

ConcSpec == Init /\ [][ConcNext]_vars

\* ------------------------------------------------------- utils.py, tasks
\* How far a call of execute_query gets: get_db_connection raises (the pool
\* is exhausted or the server unreachable, after its retries), cur.execute
\* or conn.commit raises, or the statement is executed and committed.
QueryPaths == {"connect_error", "statement_error", "committed"}

\* getconn raises PoolError when every connection is checked out.
PathsAt(n) == IF n >= MaxConn THEN {"connect_error"} ELSE QueryPaths

\* execute_query of a statement whose effect on its table is known: on the
\* error paths nothing is committed and the exception is raised again; on
\* the other one the commit comes first and fetchall raises when the
\* statement produced no result set.
execute_statement(path, stmt, db, effect) ==
    IF path = "committed"
    THEN [db |-> effect, raised |-> ~HasResultSet(stmt)]
    ELSE [db |-> db, raised |-> TRUE]

\* Mutant: return_db_connection after fetchall inside the try block, so
\* that it is skipped when anything raises.
pool_after_returnInTry(path, raised, n) ==
    IF path = "connect_error"
    THEN n
    ELSE IF raised THEN n + 1 ELSE (n + 1) - 1

\* The checked-out connections after a call that found n of them: getconn
\* takes one, and the finally clause gives it back (if conn:
\* return_db_connection(conn)) on every path on which one was taken.
pool_after(path, raised, n) ==
    IF path = "connect_error"
    THEN n
    ELSE (n + 1) - 1

\* insert_task: INSERT INTO tasks ... VALUES (.., 'queued') RETURNING
\* task_id; result[0][0], or None (0) when execute_query raised.
insert_task(db, listing, path) ==
    LET q == execute_statement(path, "insert_task", db,
                 Append(db, [status |-> "queued", listing |-> listing]))
    IN  [db |-> q.db, raised |-> q.raised,
         task_id |-> IF q.raised THEN 0 ELSE Len(q.db)]

\* update_task_status: UPDATE tasks SET status = %s ... WHERE task_id = %s;
\* True, or False when execute_query raised.
update_task_status(db, task_id, status, path) ==
    LET q == execute_statement(path, "update_task", db,
                 [i \in DOMAIN db |->
                     IF i = task_id
                     THEN [db[i] EXCEPT !.status = status]
                     ELSE db[i]])
    IN  [db |-> q.db, raised |-> q.raised, ok |-> ~q.raised]

\* -------------------------------------------- actions of TaskSpec
InsertTask(listing, path) ==
    /\ Len(tasks) < MaxTasks
    /\ path \in PathsAt(pool)
    /\ LET t == insert_task(tasks, listing, path)
       IN  /\ tasks' = t.db
           /\ query' = [stmt |-> "insert_task", path |-> path,
                        raised |-> t.raised]
           /\ pool' = pool_after(path, t.raised, pool)
    /\ UNCHANGED exceptTasks

UpdateTaskStatus(task_id, status, path) ==
    /\ task_id \in DOMAIN tasks
    /\ path \in PathsAt(pool)
    /\ LET u == update_task_status(tasks, task_id, status, path)
       IN  /\ tasks' = u.db
           /\ query' = [stmt |-> "update_task", path |-> path,
                        raised |-> u.raised]
           /\ pool' = pool_after(path, u.raised, pool)
    /\ UNCHANGED exceptTasks

TaskNext ==
    \/ \E l \in ListingIds, path \in QueryPaths : InsertTask(l, path)
    \/ \E i \in 1..MaxTasks, st \in {"processing", "completed", "failed"},
          path \in QueryPaths : UpdateTaskStatus(i, st, path)

TaskInit ==
    /\ ClustererIdle
    /\ OthersIdle

TaskSpec == TaskInit /\ [][TaskNext]_vars

\* ------------------------------------------------- 2_Website_info.py
\* The three specifications below run against a database that is up: every
\* statement it accepts is executed and committed.
Healthy == "committed"

\* The body of get_website_content: requests.get and raise_for_status in a
\* try block whose except clause logs and returns None.  It never raises.
fetch_once(ok) == [raised |-> FALSE, content |-> ok]

\* @retry(stop=stop_after_attempt(3)): tenacity calls the function again
\* only when it raised.  outcomes[n] tells whether the n-th request would
\* succeed.
RECURSIVE retry_fetch(_, _)
retry_fetch(outcomes, n) ==
    LET b == fetch_once(outcomes[n])
    IN  IF b.raised /\ n < MaxAttempts
        THEN retry_fetch(outcomes, n + 1)
        ELSE [outcomes |-> outcomes, attempts |-> n, content |-> b.content]

get_website_content(outcomes) == retry_fetch(outcomes, 1)

\* What follows a main page that was fetched: extract_about_content finds
\* nothing, generate_blurb fails, or both blurbs are generated.
WebsiteRest == {"no_content", "blurb_failed", "content"}

\* process_website: the task table afterwards, the fetch of the main page
\* and whether about_text is returned.
process_website(db, task_id, outcomes, rest) ==
    LET d1 == update_task_status(db, task_id, "processing", Healthy).db
        f == get_website_content(outcomes)
        failed_db == update_task_status(d1, task_id, "failed", Healthy).db
    IN  IF ~f.content \/ rest # "content"
        THEN [db |-> failed_db, fetch |-> f, about_text |-> FALSE]
        ELSE [db |-> update_task_status(d1, task_id, "completed",
                                        Healthy).db,
              fetch |-> f, about_text |-> TRUE]

\* while True: listings = execute_query(SELECT ... WHERE post_content IS
\* NULL OR what_makes_us_different IS NULL LIMIT 10); if not listings:
\* "No more listings to process", break.
WebsiteSelect ==
    /\ \/ website_pc = "start"
       \/ website_pc = "loop" /\ batch = {}
    /\ LET q == execute_statement(Healthy, "select_listings", stored, stored)
           rows == {l \in ListingIds : ~stored[l]}
       IN  /\ query' = [stmt |-> "select_listings", path |-> Healthy,
                        raised |-> q.raised]
           /\ pool' = pool_after(Healthy, q.raised, pool)
           /\ batch' = rows
           /\ website_pc' = IF rows = {} THEN "finished" ELSE "loop"
    /\ UNCHANGED <<stored, fetch, tasks, exceptWebsite>>

\* One listing of the batch: insert_task, process_website, and the UPDATE
\* of the listing when about_text came back.  That UPDATE goes through
\* execute_query outside any try block of the loop: what it raises reaches
\* main's except clause, which logs and raises again.
WebsiteListing(l, outcomes, rest) ==
    /\ website_pc = "loop"
    /\ l \in batch
    /\ Len(tasks) < MaxTasks
    /\ LET t == insert_task(tasks, l, Healthy)
           p == process_website(t.db, t.task_id, outcomes, rest)
           u == execute_statement(Healthy, "update_listing", stored,
                                  [stored EXCEPT ![l] = TRUE])
       IN  IF t.task_id = 0
           THEN /\ tasks' = t.db
                /\ query' = [stmt |-> "insert_task", path |-> Healthy,
                             raised |-> t.raised]
                /\ batch' = batch \ {l}
                /\ UNCHANGED <<stored, fetch, website_pc>>
           ELSE /\ tasks' = p.db
                /\ fetch' = p.fetch
                /\ IF p.about_text
                   THEN /\ stored' = u.db
                        /\ query' = [stmt |-> "update_listing",
                                     path |-> Healthy, raised |-> u.raised]
                        /\ website_pc' = IF u.raised THEN "raised"
                                         ELSE website_pc
                        /\ batch' = IF u.raised THEN {} ELSE batch \ {l}
                   ELSE /\ query' = [stmt |-> "update_task",
                                     path |-> Healthy, raised |-> TRUE]
                        /\ batch' = batch \ {l}
                        /\ UNCHANGED <<stored, website_pc>>
    /\ pool' = pool_after(Healthy, query'.raised, pool)
    /\ UNCHANGED exceptWebsite

WebsiteNext ==
    \/ WebsiteSelect
    \/ \E l \in ListingIds, outcomes \in [1..MaxAttempts -> BOOLEAN],
          rest \in WebsiteRest : WebsiteListing(l, outcomes, rest)

WebsiteInit ==
    /\ ClustererIdle
    /\ ScraperIdle
    /\ RunsIdle
    /\ TasksIdle
    /\ ListingIdle
    /\ PlacesIdle
    /\ stored \in [ListingIds -> BOOLEAN]
    /\ batch = {}
    /\ website_pc = "start"
    /\ fetch = [outcomes |-> <<>>, attempts |-> 0, content |-> FALSE]

WebsiteSpec == WebsiteInit /\ [][WebsiteNext]_vars

\* ---------------------------------------------- 4_Listing_Creator.py
\* What create_wp_post meets: get_wp_config returns None, the request (or
\* raise_for_status) raises, the response carries no 'id', or it carries one.
WpOutcomes == {"no_config", "request_error", "no_id", "posted"}

\* create_wp_post: the task table afterwards and the post id returned, 0 for
\* None.  Only the first two outcomes touch the task.
create_wp_post(db, task_id, wp) ==
    IF wp \in {"no_config", "request_error"}
    THEN [db |-> update_task_status(db, task_id, "failed", Healthy).db,
          post_id |-> 0]
    ELSE [db |-> db, post_id |-> IF wp = "posted" THEN 1 ELSE 0]

\* listings = execute_query(SELECT ... WHERE l.wp_post_id IS NULL AND
\* l.post_content IS NOT NULL LIMIT 50)
ListingSelect ==
    /\ listing_pc = "start"
    /\ LET q == execute_statement(Healthy, "select_listings", wp_post_id,
                                  wp_post_id)
           rows == {l \in ListingIds : wp_post_id[l] = 0}
       IN  /\ query' = [stmt |-> "select_listings", path |-> Healthy,
                        raised |-> q.raised]
           /\ pool' = pool_after(Healthy, q.raised, pool)
           /\ todo' = rows
           /\ listing_pc' = IF rows = {} THEN "finished" ELSE "loop"
    /\ UNCHANGED <<wp_post_id, tasks, exceptListing>>

\* One listing of process_listings: insert_task, update_task_status
\* "processing", create_wp_post; with a post id the UPDATE of the listing
\* through execute_query, outside any try block, and then
\* update_task_status "completed"; without one a warning only.
ListingCreate(l, wp) ==
    /\ listing_pc = "loop"
    /\ l \in todo
    /\ Len(tasks) < MaxTasks
    /\ LET t == insert_task(tasks, l, Healthy)
           d1 == update_task_status(t.db, t.task_id, "processing",
                                    Healthy).db
           c == create_wp_post(d1, t.task_id, wp)
           u == execute_statement(Healthy, "update_listing", wp_post_id,
                                  [wp_post_id EXCEPT ![l] = c.post_id])
           left == todo \ {l}
           after == IF left = {} THEN "finished" ELSE "loop"
       IN  IF t.task_id = 0
           THEN /\ tasks' = t.db
                /\ query' = [stmt |-> "insert_task", path |-> Healthy,
                             raised |-> t.raised]
                /\ todo' = left
                /\ listing_pc' = after
                /\ UNCHANGED wp_post_id
           ELSE IF c.post_id # 0
           THEN /\ wp_post_id' = u.db
                /\ IF u.raised
                   THEN /\ tasks' = c.db
                        /\ query' = [stmt |-> "update_listing",
                                     path |-> Healthy, raised |-> TRUE]
                        /\ todo' = {}
                        /\ listing_pc' = "raised"
                   ELSE /\ tasks' = update_task_status(c.db, t.task_id,
                                        "completed", Healthy).db
                        /\ query' = [stmt |-> "update_task",
                                     path |-> Healthy, raised |-> TRUE]
                        /\ todo' = left
                        /\ listing_pc' = after
           ELSE /\ tasks' = c.db
                /\ query' = [stmt |-> "update_task", path |-> Healthy,
                             raised |-> TRUE]
                /\ todo' = left
                /\ listing_pc' = after
                /\ UNCHANGED wp_post_id
    /\ pool' = pool_after(Healthy, query'.raised, pool)
    /\ UNCHANGED exceptListing

\* The script is started again.
ListingRestart ==
    /\ listing_pc \in {"finished", "raised"}
    /\ listing_pc' = "start"
    /\ UNCHANGED <<wp_post_id, todo, taskVars, exceptListing>>

ListingNext ==
    \/ ListingSelect
    \/ \E l \in ListingIds, wp \in WpOutcomes : ListingCreate(l, wp)
    \/ ListingRestart

ListingInit ==
    /\ ClustererIdle
    /\ ScraperIdle
    /\ RunsIdle
    /\ TasksIdle
    /\ WebsiteIdle
    /\ PlacesIdle
    /\ wp_post_id \in [ListingIds -> {0, 1}]
    /\ todo = {}
    /\ listing_pc = "start"

ListingSpec == ListingInit /\ [][ListingNext]_vars

\* ------------------------------- 1_Places_scraper.py, save_place_to_db
PlaceIds == {1, 2}
Names == {1, 2}

\* The columns of listings that TABLE_DEFINITIONS declares with a unique
\* index: 'listing_id': 'SERIAL PRIMARY KEY'.  'google_place_id' is declared
\* 'VARCHAR(100)'.
UniqueColumns == {"listing_id"}

\* INSERT INTO listings (...) VALUES (...) ON CONFLICT (google_place_id) DO
\* UPDATE SET name = EXCLUDED.name, ... RETURNING listing_id, on a table
\* where the conflict target has a unique index: postcode_id is not in the
\* SET list.
UpsertStmt(db, g, pid, name) ==
    IF \E i \in DOMAIN db : db[i].google_place_id = g
    THEN [i \in DOMAIN db |->
             IF db[i].google_place_id = g
             THEN [db[i] EXCEPT !.name = name]
             ELSE db[i]]
    ELSE Append(db, [google_place_id |-> g, postcode_id |-> pid,
                     name |-> name])

\* save_place_to_db: result = execute_query(query, params); return
\* bool(result); except Exception: log, return False.  PostgreSQL rejects
\* ON CONFLICT (c) when no unique index or constraint matches c.
save_place_to_db(db, g, pid, name) ==
    LET path == IF "google_place_id" \in UniqueColumns
                THEN Healthy ELSE "statement_error"
        q == execute_statement(path, "upsert_listing", db,
                               UpsertStmt(db, g, pid, name))
    IN  [db |-> q.db, path |-> path, raised |-> q.raised,
         returned |-> ~q.raised]

SavePlace(g, pid, name) ==
    /\ LET s == save_place_to_db(places, g, pid, name)
       IN  /\ places' = s.db
           /\ saved' = [place |-> g, postcode_id |-> pid, name |-> name,
                        returned |-> s.returned]
           /\ query' = [stmt |-> "upsert_listing", path |-> s.path,
                        raised |-> s.raised]
           /\ pool' = pool_after(s.path, s.raised, pool)
    /\ UNCHANGED exceptPlaces

PlaceNext ==
    \E g \in PlaceIds, pid \in ListingIds, name \in Names :
        SavePlace(g, pid, name)

\* The listings table before the scraper runs: at most one row for a place.
InitialPlaces ==
    LET Rows == [google_place_id : PlaceIds, postcode_id : ListingIds,
                 name : Names]
    IN  {<<>>} \cup {<<a>> : a \in Rows}
        \cup {p \in Rows \X Rows :
                   p[1].google_place_id # p[2].google_place_id}

PlaceInit ==
    /\ ClustererIdle
    /\ ScraperIdle
    /\ RunsIdle
    /\ TasksIdle
    /\ WebsiteIdle
    /\ ListingIdle
    /\ places \in InitialPlaces
    /\ saved = [place |-> 0, postcode_id |-> 0, name |-> 0,
                returned |-> FALSE]

PlaceSpec == PlaceInit /\ [][PlaceNext]_vars

\* ------------------------------------------------------------ the claims
Geocoded(i) ==
    postcodes[i].latitude # Null /\ postcodes[i].longitude # Null

Centers == {c \in Ids : postcodes[c].is_cluster_center = TRUE}

Array(c) == Elems(Val(postcodes[c].cluster_postcodes))

Distance(a, b) ==
    Haversine(Val(postcodes[a].latitude), Val(postcodes[a].longitude),
              Val(postcodes[b].latitude), Val(postcodes[b].longitude))

\* The geocoded rows within radius_km of the geocoded row a.
InRange(a) ==
    {b \in Ids : Geocoded(b) /\ Distance(a, b) <= radius_km * 1000}

Cleared(i) ==
    /\ postcodes[i].is_cluster_center = FALSE
    /\ postcodes[i].cluster_id = Null
    /\ postcodes[i].cluster_postcodes = Null

Completed == pc = "done"

\* C1 (StmtSpec): coverage totality.  After a completed run every row with
\* both coordinates has a non-null cluster_id.
C1_CoverageTotality ==
    Completed => \A i \in Ids : Geocoded(i) => postcodes[i].cluster_id # Null

\* A completed run in which a geocoded row that is no center got its
\* cluster_id from the member-assignment statement.
C1_Witness ==
    /\ Completed
    /\ \E i \in Ids, c \in Centers :
          /\ Geocoded(i) /\ i \notin Centers
          /\ postcodes[i].cluster_id = postcodes[c].cluster_id

\* C2 (StmtSpec): after a completed run, for every geocoded row p there is
\* a center row carrying p's cluster_id, and every center row carrying it
\* has p in its cluster_postcodes and lies within radius_km of p.
C2_WithinRadiusOfAssignedCenter ==
    Completed =>
        \A p \in Ids : Geocoded(p) =>
            /\ \E c \in Centers :
                  postcodes[c].cluster_id = postcodes[p].cluster_id
            /\ \A c \in Centers :
                  postcodes[c].cluster_id = postcodes[p].cluster_id
                      => /\ p \in Array(c)
                         /\ Distance(p, c) <= radius_km * 1000

\* C3 (StmtSpec): dominating set.  After a completed run every geocoded
\* row's id is in the cluster_postcodes of some center row.
C3_DominatingSet ==
    Completed =>
        \A i \in Ids : Geocoded(i) => \E c \in Centers : i \in Array(c)

\* A completed run in which a candidate was dropped as a duplicate and is
\* covered by the center kept for its signature.
C3_Witness ==
    /\ Completed
    /\ \E i \in Ids, c \in Centers :
          /\ Geocoded(i) /\ i \notin Centers
          /\ InRange(i) = InRange(c)
          /\ i \in Array(c)

\* C4 (StmtSpec): signature dedup.  After a completed run no two center
\* rows have the same cluster_postcodes, and for every candidate exactly
\* one center row carries the candidate's coverage set.
C4_SignatureDedup ==
    Completed =>
        /\ \A c1, c2 \in Centers :
              c1 # c2 => postcodes[c1].cluster_postcodes
                             # postcodes[c2].cluster_postcodes
        /\ \A a \in Ids : Geocoded(a) =>
              Cardinality({c \in Centers : Array(c) = InRange(a)}) = 1

\* A completed run with two candidates of equal coverage set and a third
\* candidate of another one.
C4_Witness ==
    /\ Completed
    /\ \E a, b, d \in Ids :
          /\ a # b /\ Geocoded(a) /\ Geocoded(b) /\ Geocoded(d)
          /\ InRange(a) = InRange(b)
          /\ InRange(d) # InRange(a)

\* C5 (StmtSpec): after a completed run the cluster_postcodes of every
\* center a holds exactly the ids of the geocoded rows within radius_km of
\* a (boundary included): a itself, nothing farther, no row without
\* coordinates.
C5_ExactCoverage ==
    Completed =>
        \A a \in Centers :
            /\ postcodes[a].cluster_postcodes # Null
            /\ Array(a) = InRange(a)
            /\ a \in Array(a)
            /\ \A b \in Ids :
                  /\ (Geocoded(b) /\ Distance(a, b) = radius_km * 1000)
                        => b \in Array(a)
                  /\ (Geocoded(b) /\ Distance(a, b) > radius_km * 1000)
                        => b \notin Array(a)
                  /\ ~Geocoded(b) => b \notin Array(a)

\* A completed run with a center that covers another row at distance
\* exactly radius_km, next to a row without coordinates.
C5_Witness ==
    /\ Completed
    /\ \E a \in Centers, b \in Ids :
          /\ b # a /\ b \in Array(a)
          /\ Distance(a, b) = radius_km * 1000
    /\ \E n \in Ids : ~Geocoded(n)

ClusterFields(db) ==
    [i \in Ids |-> <<db[i].is_cluster_center, db[i].cluster_id,
                     db[i].cluster_postcodes>>]

Coordinates(db) == [i \in Ids |-> <<db[i].latitude, db[i].longitude>>]

\* C6 (RerunSpec): determinism.  A completed run on the same points with
\* the same radius_km as the completed run before it leaves the same
\* centers, cluster ids and coverage sets.
C6_Determinism ==
    (/\ Completed
     /\ prev # Null
     /\ Val(prev).radius = radius_km
     /\ Coordinates(Val(prev).db) = Coordinates(postcodes))
        => ClusterFields(Val(prev).db) = ClusterFields(postcodes)

\* C7 (StmtSpec): right after the reset statement every row has
\* is_cluster_center = FALSE, cluster_id = NULL and cluster_postcodes =
\* NULL, and in the result of the run no row that the reset cleared and
\* that has no coordinates carries a cluster assignment.
C7_ResetClearsAll ==
    /\ pc = "reset" => \A i \in Ids : Cleared(i)
    /\ Completed => \A i \in reset_rows : ~Geocoded(i) => Cleared(i)

\* The reset has cleared a row of an earlier run whose latitude has since
\* become null.
C7_Witness ==
    /\ pc = "reset"
    /\ \E i \in reset_rows : postcodes[i].latitude = Null

\* C8 (StmtSpec): idempotence of reset.  From every table, the reset
\* statement applied twice gives what it gives applied once; right after
\* the reset statement the table is a fixed point of it.
C8_ResetIdempotent ==
    /\ ResetStmt(ResetStmt(postcodes)) = ResetStmt(postcodes)
    /\ pc = "reset" => ResetStmt(postcodes) = postcodes

\* The reset statement has just updated rows (it was no no-op).
C8_Witness ==
    /\ pc = "reset"
    /\ Cardinality(reset_rows) >= 2

\* C9 (Spec): empty input.  A call of generate_clusters on a table without
\* geocoded rows ends by returning 0 and leaves no center row.
C9_EmptyInputReturnsZero ==
    (pc # "idle" /\ \A i \in Ids : ~Geocoded(i))
        => /\ pc = "done"
           /\ result = Some(0)
           /\ Centers = {}

\* C10 (StmtSpec): after a completed run a row with null latitude or null
\* longitude is no center, has no cluster_id and no cluster_postcodes, and
\* is in no center's cluster_postcodes.
C10_NullCoordinatesExcluded ==
    Completed =>
        \A i \in Ids : ~Geocoded(i) =>
            /\ Cleared(i)
            /\ \A c \in Centers : i \notin Array(c)

\* A completed run that left centers, on a table holding a row with a
\* latitude and no longitude that an earlier run had clustered.
C10_Witness ==
    /\ Completed
    /\ Centers # {}
    /\ \E i \in reset_rows :
          postcodes[i].latitude # Null /\ postcodes[i].longitude = Null

\* C11: after a completed run cluster_postcodes is non-null exactly on the
\* rows with is_cluster_center = TRUE, and the member-assignment statement
\* changes no column but cluster_id on the rows that are not centers (and
\* cluster_postcodes on no row at all).
C11_ArrayOnlyOnCenters ==
    [][(pc = "marked" /\ pc' = "done") =>
          /\ \A i \in Ids :
                (postcodes'[i].cluster_postcodes # Null)
                    <=> (postcodes'[i].is_cluster_center = TRUE)
          /\ \A i \in Ids :
                postcodes'[i].cluster_postcodes = postcodes[i].cluster_postcodes
          /\ \A i \in Ids :
                postcodes[i].is_cluster_center # TRUE =>
                    postcodes'[i] = [postcodes[i] EXCEPT
                                       !.cluster_id = postcodes'[i].cluster_id]
      ]_vars

\* A completed run that made a member: a row that is not a center carries a
\* cluster_id and no array, next to a center that carries its array.
C11_Witness ==
    /\ Completed
    /\ \E i \in Ids : /\ postcodes[i].is_cluster_center # TRUE
                      /\ postcodes[i].cluster_id # Null
                      /\ postcodes[i].cluster_postcodes = Null
    /\ \E c \in Centers : postcodes[c].cluster_postcodes # Null

\* C12: every stored cluster_postcodes is strictly ascending by id (hence
\* without duplicates), so two stored arrays holding the same set of ids are
\* the same array.
C12_SignatureAscending ==
    /\ \A i \in Ids :
          postcodes[i].cluster_postcodes # Null =>
              LET s == Val(postcodes[i].cluster_postcodes)
              IN  \A k \in 1..(Len(s) - 1) : s[k] < s[k + 1]
    /\ \A i, j \in Ids :
          (/\ postcodes[i].cluster_postcodes # Null
           /\ postcodes[j].cluster_postcodes # Null
           /\ Array(i) = Array(j))
              => postcodes[i].cluster_postcodes = postcodes[j].cluster_postcodes

\* A stored array of three ids.
C12_Witness ==
    \E c \in Centers : /\ postcodes[c].cluster_postcodes # Null
                       /\ Len(Val(postcodes[c].cluster_postcodes)) = MaxId

\* C13: among the candidates with the same coverage signature (they all have
\* the same coverage count, the length of the signature) the one kept as
\* center is the one with the lowest id.
C13_TieBreakLowestId ==
    pc \in {"marked", "done"} =>
        \A c \in Centers :
            \A a \in Ids :
                (Geocoded(a) /\ InRange(a) = Array(c)) => c <= a

\* The order of ORDER BY on integer arrays: element by element, a proper
\* prefix first.
SignatureBefore(s, t) ==
    \E k \in 1..(Len(s) + 1) :
        /\ k <= Len(t)
        /\ \A j \in 1..(k - 1) : s[j] = t[j]
        /\ (k = Len(s) + 1 \/ s[k] < t[k])

\* C14: after the centers are marked their cluster ids are exactly 1..k for
\* k centers, given out in ascending order of the signatures.
C14_SequentialIds ==
    pc = "marked" =>
        /\ {Val(postcodes[c].cluster_id) : c \in Centers}
               = 1..Cardinality(Centers)
        /\ \A c, d \in Centers :
              SignatureBefore(Val(postcodes[c].cluster_postcodes),
                              Val(postcodes[d].cluster_postcodes))
                  => Val(postcodes[c].cluster_id) < Val(postcodes[d].cluster_id)

\* The cluster ids, as statement 2 gave them, of the centers whose array
\* holds p.
CoveringIds(p) ==
    {Val(postcodes[c].cluster_id) : c \in {d \in Centers : p \in Array(d)}}

\* C15: the member assignment leaves every point that lies in the array of
\* some center with the lowest cluster id among the centers covering it.
C15_FirstClaimWins ==
    [][(pc = "marked" /\ pc' = "done") =>
          \A p \in Ids :
              CoveringIds(p) # {} =>
                  /\ postcodes'[p].cluster_id # Null
                  /\ \A n \in CoveringIds(p) :
                        Val(postcodes'[p].cluster_id) <= n
      ]_vars

FreshTable ==
    [i \in Ids |-> NewRow(postcodes[i].latitude, postcodes[i].longitude)]

\* The cluster fields that statements 2 and 3, run to completion with radius
\* r on table db, can leave.
CompletedRuns(db, r) ==
    {ClusterFields(t) :
        t \in UNION {AssignMembersStmt(out.db) : out \in MarkCentersStmt(db, r)}}

\* C17: whatever the table held when a run was entered (in particular what
\* a run that failed after any of its statements left there), the final
\* cluster states the run can complete with, once its reset is done, are
\* those a completed run from a fully reset table on the same points has.
\* (Equal tables have equal runs: the sets are compared where the table
\* after the reset is not the fully reset one.)
C17_SafeRerun ==
    pc = "reset" =>
        \/ postcodes = FreshTable
        \/ CompletedRuns(postcodes, radius_km)
              = CompletedRuns(FreshTable, radius_km)

\* A run completed after its reset found the leftovers of a run that
\* failed after marking its centers: cluster data on some rows while a
\* geocoded row had none.
C17_Witness ==
    /\ Completed
    /\ reset_rows # {}
    /\ \E i \in Ids : Geocoded(i) /\ i \notin reset_rows

\* C18: once a statement of the call has failed, the call has raised and has
\* returned no count.
C18_FailureSurfaced ==
    failed # "none" => (pc = "raised" /\ result = Null)

\* The member assignment failed after centers had been marked: the call
\* raised although it held the rows a count would be taken from.
C18_Witness ==
    /\ failed = "assign_members"
    /\ pc = "raised"
    /\ clusters_added # {}

\* C19 as stated: after a failed run the caller sees the cluster count 0.
C19_FailedRunReportsZero ==
    pc = "raised" => result = Some(0)

\* C19, amended: a failed run is logged and re-raised; the caller gets an
\* exception and no cluster count, neither 0 nor any other.
C19_FailedRunReportsNoCount ==
    pc = "raised" => (result = Null /\ result # Some(0))

\* A failed call on a table with geocoded rows.
C19_Witness ==
    /\ pc = "raised"
    /\ result = Null
    /\ \E i \in Ids : Geocoded(i)

\* C20: the value a completed run returns is the number of distinct coverage
\* signatures among the candidates, and is the number of rows with
\* is_cluster_center = TRUE afterwards.
C20_ReturnedCount ==
    Completed =>
        /\ result = Some(Cardinality({InRange(a) :
                                         a \in {i \in Ids : Geocoded(i)}}))
        /\ result = Some(Cardinality(Centers))

\* Two points covering each other and a third one far from both: 2 clusters
\* covering 3 points.
C20_Witness ==
    /\ Completed
    /\ result = Some(2)
    /\ \A i \in Ids : Geocoded(i) /\ postcodes[i].cluster_id # Null
    /\ \E a, b, c \in Ids :
          /\ a # b
          /\ InRange(a) = {a, b}
          /\ InRange(b) = {a, b}
          /\ InRange(c) = {c}

\* C24: the member assignment changes the cluster_id of no center row, and
\* after it no two center rows share a cluster_id.
C24_CentersKeepTheirId ==
    [][(pc = "marked" /\ pc' = "done") =>
          /\ \A c \in Centers :
                postcodes'[c].cluster_id = postcodes[c].cluster_id
          /\ \A c, d \in Centers :
                c # d => postcodes'[c].cluster_id # postcodes'[d].cluster_id
      ]_vars

\* get_next_cluster has been called and main has not been started again.
Fetched == scraper_pc \in {"finished", "raised"}

\* The age order of the claim: a is null, or strictly older than b.
StrictlyStaler(a, b) ==
    /\ b # Null
    /\ (a = Null \/ Val(a) < Val(b))

\* C21 as stated: with a null last_scraped around, a cluster with a null one
\* is returned; otherwise the cluster with the earliest last_scraped is; no
\* cluster is returned while a null or strictly older one exists.
C21_StalestFirst ==
    Fetched =>
        /\ (\E c \in ClusterIds : last_scraped[c] = Null) =>
              (cluster # <<>> /\ last_scraped[cluster[1]] = Null)
        /\ (\A c \in ClusterIds : last_scraped[c] # Null) =>
              /\ cluster # <<>>
              /\ \A d \in ClusterIds :
                    Val(last_scraped[cluster[1]]) <= Val(last_scraped[d])
        /\ cluster # <<>> =>
              \A d \in ClusterIds :
                  ~StrictlyStaler(last_scraped[d], last_scraped[cluster[1]])

\* C21, amended: as stated, except that without a null last_scraped the
\* cluster with the earliest one is returned only if that is more than 7
\* days old, and no cluster is returned if it is not.
C21_StalestEligibleFirst ==
    Fetched =>
        /\ (\E c \in ClusterIds : last_scraped[c] = Null) =>
              (cluster # <<>> /\ last_scraped[cluster[1]] = Null)
        /\ (\A c \in ClusterIds : last_scraped[c] # Null) =>
              IF \E c \in ClusterIds : Val(last_scraped[c]) < now - StaleDays
              THEN /\ cluster # <<>>
                   /\ \A d \in ClusterIds :
                         Val(last_scraped[cluster[1]]) <= Val(last_scraped[d])
              ELSE cluster = <<>>
        /\ cluster # <<>> =>
              \A d \in ClusterIds :
                  ~StrictlyStaler(last_scraped[d], last_scraped[cluster[1]])

\* No null timestamp, a stale cluster returned while a fresher one exists.
C21_Witness ==
    /\ Fetched
    /\ \A c \in ClusterIds : last_scraped[c] # Null
    /\ cluster # <<>>
    /\ \E d \in ClusterIds :
          Val(last_scraped[cluster[1]]) < Val(last_scraped[d])

\* C22: when two generate_clusters calls have interleaved statement by
\* statement and both have completed, no two center rows have the same
\* cluster_postcodes and every geocoded row has a cluster_id.
C22_ConcurrentRunsKeepInvariants ==
    (\A k \in Runs : runs[k].pc = "done") =>
        /\ \A c1, c2 \in Centers :
              c1 # c2 => postcodes[c1].cluster_postcodes
                             # postcodes[c2].cluster_postcodes
        /\ \A i \in Ids : Geocoded(i) => postcodes[i].cluster_id # Null

\* A cluster get_next_cluster can still return: never scraped, or scraped
\* more than 7 days ago.
Due(c) ==
    last_scraped[c] = Null \/ Val(last_scraped[c]) < now - StaleDays

\* C23: main of the places scraper ends by reaching "No more areas to
\* process", every cluster that was due having been scraped and stamped, so
\* that none is due any more.
C23_ScraperTerminates ==
    Fetched =>
        /\ scraper_pc = "finished"
        /\ \A c \in ClusterIds : ~Due(c)

\* C25: execute_query is all-or-nothing: a call that raised has persisted
\* nothing of its statement, the table is what it was before the call.
C25_AllOrNothing ==
    [][query'.raised => tasks' = tasks]_vars

\* C26: between calls of execute_query no connection of the pool is checked
\* out, whichever path the calls took, so that sequential use never
\* exhausts the pool.
C26_PoolBalanced ==
    pool = 0 /\ pool < MaxConn

\* A call raised after taking a connection, at fetchall after the commit,
\* and the connection is back in the pool.
C26_Witness ==
    /\ query.raised
    /\ query.path = "committed"
    /\ pool = 0

\* C27: get_website_content tries again when a fetch fails, up to 3
\* attempts: it stops at the first request that succeeds, or after the
\* third that fails.
C27_FetchRetries ==
    fetch.attempts # 0 =>
        LET o == fetch.outcomes
        IN  /\ fetch.attempts =
                  IF o[1] THEN 1 ELSE IF o[2] THEN 2 ELSE MaxAttempts
            /\ fetch.content = (\E n \in 1..MaxAttempts : o[n])

\* C28: main of 2_Website_info.py ends by reaching "No more listings to
\* process", whatever process_website returned for the listings.
C28_WebsiteMainTerminates ==
    website_pc \in {"finished", "raised"} => website_pc = "finished"

\* C29: once process_listings is done with a listing, the task it created
\* is 'completed' or 'failed', and 'completed' only with the listing's
\* wp_post_id stored.
C29_TasksReachTerminalStatus ==
    \A i \in DOMAIN tasks :
        /\ tasks[i].status \in {"completed", "failed"}
        /\ tasks[i].status = "completed" =>
               wp_post_id[tasks[i].listing] # 0

\* C30: save_place_to_db is an upsert on google_place_id: after a call the
\* table holds exactly one row for the place, with the name given, the call
\* returned True, and a row the place had before keeps its listing_id and
\* its postcode_id.
C30_SavePlaceUpserts ==
    [][saved'.place # 0 =>
          LET g == saved'.place
          IN  /\ saved'.returned
              /\ Cardinality({i \in DOMAIN places' :
                                 places'[i].google_place_id = g}) = 1
              /\ \A i \in DOMAIN places' :
                    places'[i].google_place_id = g =>
                        places'[i].name = saved'.name
              /\ \A i \in DOMAIN places :
                    places[i].google_place_id = g =>
                        /\ i \in DOMAIN places'
                        /\ places'[i].google_place_id = g
                        /\ places'[i].postcode_id = places[i].postcode_id
      ]_vars

====
